---- MODULE Spec2Model ----
(***************************************************************************)
(* Opportunity lifecycle engine of humank/hk-ttt.                          *)
(*                                                                         *)
(* The repository holds three implementations of the lifecycle:           *)
(*   - the domain model of opportunity-management (Opportunity aggregate,  *)
(*     StatusTransitionService, OpportunityValidationService): Spec        *)
(*   - the OpportunityService of opportunity_management_service            *)
(*     (in-memory repositories): SpecService                               *)
(*   - the OpportunityServiceAdapter of opportunity_api: SpecAdapter       *)
(* Each is modelled over its own variables; the three specifications       *)
(* share the clock.                                                        *)
(***************************************************************************)
EXTENDS Integers, Sequences, FiniteSets, TLC

VARIABLES
    today,        \* the ambient clock (date.today() / datetime.now()), in days
    opportunity,  \* the domain Opportunity aggregate
    pc,           \* position inside StatusTransitionService.select_architect
    pending,      \* selection_notes held by select_architect between its two writes
    result,       \* outcome returned by the last domain command
    svc,          \* OpportunityService: the stored Opportunity and its related entities
    svc_statuses, \* InMemoryOpportunityStatusRepository._entities, in insertion order
    svc_result,   \* outcome of the last OpportunityService command
    adp,          \* OpportunityServiceAdapter: the opportunities row and related rows
    adp_statuses, \* the opportunity_statuses table, in insertion order
    adp_result,   \* outcome of the last adapter command
    opportunities, \* InMemoryOpportunityRepository._opportunities: the stored object
    loaded,       \* the version each caller last saw the stored object at, 0 for none
    repo_result   \* outcome of the last call on the repository

vars == <<today, opportunity, pc, pending, result,
          svc, svc_statuses, svc_result, adp, adp_statuses, adp_result,
          opportunities, loaded, repo_result>>

domainVars  == <<opportunity, pc, pending, result>>
serviceVars == <<svc, svc_statuses, svc_result>>
adapterVars == <<adp, adp_statuses, adp_result>>
repositoryVars == <<opportunities, loaded, repo_result>>

----------------------------------------------------------------------------
(* Bounds of the model *)

MaxDay == 92
MaxHistory == 7
MaxSkills == 1
MaxServiceSkills == 2
MaxVersion == 5

(* Steps by which the clock is advanced: 45 + 45 = 90, 45 + 46 = 91 *)
ClockSteps == {45, 46}

----------------------------------------------------------------------------
(* Values *)

DRAFT == "Draft"
SUBMITTED == "Submitted"
MATCHING_IN_PROGRESS == "Matching in Progress"
MATCHES_FOUND == "Matches Found"
ARCHITECT_SELECTED == "Architect Selected"
COMPLETED == "Completed"
CANCELLED == "Cancelled"

OpportunityStatus ==
    {DRAFT, SUBMITTED, MATCHING_IN_PROGRESS, MATCHES_FOUND,
     ARCHITECT_SELECTED, COMPLETED, CANCELLED}

None == "None"            \* Python None for optional strings and enums
NoDate == <<>>            \* Python None for optional dates
OnDay(d) == <<d>>         \* a set optional date
DayOf(x) == x[1]
Nothing == <<>>           \* Python None for optional objects
Just(x) == <<x>>          \* a set optional object
ValueOf(x) == x[1]

MUST_HAVE == "Must Have"
NICE_TO_HAVE == "Nice to Have"

(* domain/enums/priority.py *)
MEDIUM == "Medium"
HIGH == "High"

(* str.strip() of the inputs used here is empty for "" and " " *)
Blank(s) == s \in {"", " "}

(* Inputs of the commands *)
Users == {"", "sm_001"}
Reasons == {"", "budget"}
Notes == {None, "note"}
SelectionNotes == {None, "fits"}
ArchitectIds == {"", "arch_1"}

NoResult == [op |-> "none", success |-> FALSE]
Outcome(op, ok) == [op |-> op, success |-> ok]

----------------------------------------------------------------------------
(* domain/enums/status.py *)

valid_transitions(s) ==
    CASE s = DRAFT                -> {SUBMITTED, CANCELLED}
      [] s = SUBMITTED            -> {MATCHING_IN_PROGRESS, CANCELLED}
      [] s = MATCHING_IN_PROGRESS -> {MATCHES_FOUND, CANCELLED}
      [] s = MATCHES_FOUND        -> {ARCHITECT_SELECTED, CANCELLED}
      [] s = ARCHITECT_SELECTED   -> {COMPLETED, CANCELLED}
      [] s = COMPLETED            -> {}
      [] s = CANCELLED            -> {DRAFT}
      [] OTHER                    -> {}

can_transition_to(s, new_status) == new_status \in valid_transitions(s)

is_modifiable(s) == s \in {DRAFT, SUBMITTED}

is_final(s) == s \in {COMPLETED, CANCELLED}

----------------------------------------------------------------------------
(* domain/entities/status_history.py *)

(* notes is the list of the parts of the notes string, <<>> for None *)
NotesOf(n) == IF n = None THEN <<>> ELSE <<n>>

(* StatusHistory.__post_init__: the entry is rejected *)
StatusHistoryRaises(from_status, to_status, changed_by) ==
    \/ Blank(changed_by)
    \/ (from_status # None /\ ~can_transition_to(from_status, to_status))

(* create_initial_status that records the initial status as the one left *)
create_initial_status_from_itself(initial_status, created_by, notes, now) ==
    [from_status |-> initial_status, to_status |-> initial_status,
     changed_by |-> created_by, change_reason |-> "Initial status",
     notes |-> NotesOf(notes), created_at |-> now]

create_initial_status(initial_status, created_by, notes, now) ==
    [from_status |-> None, to_status |-> initial_status, changed_by |-> created_by,
     change_reason |-> "Initial status", notes |-> NotesOf(notes), created_at |-> now]

(* create_status_change that records no from_status *)
create_status_change_without_from(from_status, to_status, changed_by, reason, notes, now) ==
    [from_status |-> None, to_status |-> to_status, changed_by |-> changed_by,
     change_reason |-> reason, notes |-> NotesOf(notes), created_at |-> now]

(* create_status_change with from_status and to_status exchanged *)
create_status_change_swapped(from_status, to_status, changed_by, reason, notes, now) ==
    [from_status |-> to_status, to_status |-> from_status, changed_by |-> changed_by,
     change_reason |-> reason, notes |-> NotesOf(notes), created_at |-> now]

create_status_change(from_status, to_status, changed_by, reason, notes, now) ==
    [from_status |-> from_status, to_status |-> to_status, changed_by |-> changed_by,
     change_reason |-> reason, notes |-> NotesOf(notes), created_at |-> now]

----------------------------------------------------------------------------
(* domain/entities/opportunity.py: each method maps the aggregate o to     *)
(* [raised, o]: whether it raised, and the aggregate it leaves behind.     *)

Returned(o) == [raised |-> FALSE, o |-> o]
Raised(o) == [raised |-> TRUE, o |-> o]

NewOpportunity(sales_manager_id, now) ==
    [title |-> "T",
     description |-> "D",
     annual_recurring_revenue |-> 10,
     priority |-> MEDIUM,
     status |-> DRAFT,
     status_history |-> <<create_initial_status(DRAFT, sales_manager_id,
                                                "Opportunity created", now)>>,
     problem_statement |-> Nothing,
     skill_requirements |-> <<>>,
     timeline_specification |-> Nothing,
     selected_architect_id |-> None,
     completion_date |-> NoDate,
     cancellation_date |-> NoDate,
     cancellation_reason |-> None]

(* change_status that sets the status and forgets the history entry *)
change_status_no_history(o, new_status, changed_by, reason, notes, now) ==
    IF ~can_transition_to(o.status, new_status) THEN Raised(o)
    ELSE IF StatusHistoryRaises(o.status, new_status, changed_by) THEN Raised(o)
    ELSE LET o1 == [o EXCEPT !.status = new_status]
         IN  Returned(
               IF new_status = CANCELLED
               THEN [o1 EXCEPT !.cancellation_date = OnDay(now),
                               !.cancellation_reason = reason]
               ELSE IF new_status = COMPLETED
               THEN [o1 EXCEPT !.completion_date = OnDay(now)]
               ELSE o1)

(* change_status that writes the entry and the status before it validates *)
change_status_late_check(o, new_status, changed_by, reason, notes, now) ==
    LET entry == create_status_change(o.status, new_status, changed_by,
                                      reason, notes, now)
        o1 == [o EXCEPT !.status_history = Append(@, entry),
                        !.status = new_status]
    IN  IF ~can_transition_to(o.status, new_status) THEN Raised(o1)
        ELSE IF StatusHistoryRaises(o.status, new_status, changed_by) THEN Raised(o1)
        ELSE Returned(
               IF new_status = CANCELLED
               THEN [o1 EXCEPT !.cancellation_date = OnDay(now),
                               !.cancellation_reason = reason]
               ELSE IF new_status = COMPLETED
               THEN [o1 EXCEPT !.completion_date = OnDay(now)]
               ELSE o1)

change_status(o, new_status, changed_by, reason, notes, now) ==
    IF ~can_transition_to(o.status, new_status) THEN Raised(o)
    ELSE IF StatusHistoryRaises(o.status, new_status, changed_by) THEN Raised(o)
    ELSE LET entry == create_status_change(o.status, new_status, changed_by,
                                           reason, notes, now)
             o1 == [o EXCEPT !.status_history = Append(@, entry),
                             !.status = new_status]
         IN  Returned(
               IF new_status = CANCELLED
               THEN [o1 EXCEPT !.cancellation_date = OnDay(now),
                               !.cancellation_reason = reason]
               ELSE IF new_status = COMPLETED
               THEN [o1 EXCEPT !.completion_date = OnDay(now)]
               ELSE o1)

select_architect(o, architect_id, selected_by, now) ==
    IF o.status # MATCHES_FOUND THEN Raised(o)
    ELSE change_status([o EXCEPT !.selected_architect_id = architect_id],
                       ARCHITECT_SELECTED, selected_by,
                       "Solution Architect selected", None, now)

complete_opportunity(o, completed_by, notes, now) ==
    IF o.status # ARCHITECT_SELECTED THEN Raised(o)
    ELSE change_status(o, COMPLETED, completed_by, "Opportunity completed", notes, now)

cancel_opportunity(o, cancelled_by, reason, notes, now) ==
    IF is_final(o.status) THEN Raised(o)
    ELSE IF Blank(reason) THEN Raised(o)
    ELSE change_status(o, CANCELLED, cancelled_by, reason, notes, now)

EntityWindowDays == 90

reactivate_opportunity(o, reactivated_by, notes, now) ==
    IF o.status # CANCELLED THEN Raised(o)
    ELSE IF o.cancellation_date = NoDate THEN Raised(o)
    ELSE IF now - DayOf(o.cancellation_date) > EntityWindowDays THEN Raised(o)
    ELSE LET r == change_status(o, DRAFT, reactivated_by,
                                "Opportunity reactivated", notes, now)
         IN  IF r.raised THEN r
             ELSE Returned([r.o EXCEPT !.cancellation_date = NoDate,
                                       !.cancellation_reason = None])

(* Opportunity.update_basic_info; an argument is Nothing when it is not    *)
(* passed. The fields are written one after the other, so a raise leaves   *)
(* the earlier ones written.                                               *)
update_basic_info(o, title, description, annual_recurring_revenue, priority) ==
    IF ~is_modifiable(o.status) THEN Raised(o)
    ELSE IF title # Nothing /\ Blank(ValueOf(title)) THEN Raised(o)
    ELSE LET o1 == IF title = Nothing THEN o
                   ELSE [o EXCEPT !.title = ValueOf(title)]
         IN  IF description # Nothing /\ Blank(ValueOf(description)) THEN Raised(o1)
             ELSE LET o2 == IF description = Nothing THEN o1
                            ELSE [o1 EXCEPT !.description = ValueOf(description)]
                  IN  IF annual_recurring_revenue # Nothing
                           /\ ValueOf(annual_recurring_revenue) <= 0
                      THEN Raised(o2)
                      ELSE LET o3 == IF annual_recurring_revenue = Nothing THEN o2
                                     ELSE [o2 EXCEPT !.annual_recurring_revenue =
                                                        ValueOf(annual_recurring_revenue)]
                           IN  Returned(IF priority = Nothing THEN o3
                                        ELSE [o3 EXCEPT !.priority = ValueOf(priority)])

----------------------------------------------------------------------------
(* Values the requirement setters are called with *)

ProblemStatements ==
    {[business_impact |-> "impact", technical_requirements |-> "tech",
      success_criteria |-> "criteria"],
     [business_impact |-> None, technical_requirements |-> "tech",
      success_criteria |-> "criteria"]}

SkillRequirements ==
    {[skill_name |-> "Python", skill_category |-> "Technical", importance |-> MUST_HAVE],
     [skill_name |-> "Docker", skill_category |-> "Technical", importance |-> NICE_TO_HAVE]}

TimelineSpecifications == {[flexibility |-> "Fixed"], [flexibility |-> "Flexible"]}

(* str.lower() of the skill names used here *)
Lower(name) ==
    CASE name = "Python" -> "python"
      [] name = "Docker" -> "docker"
      [] OTHER -> name

(* ProblemStatement.is_complete; title and description are non-empty by __post_init__ *)
is_complete(ps) ==
    /\ ps.business_impact # None
    /\ ps.technical_requirements # None
    /\ ps.success_criteria # None

is_mandatory(skill) == skill.importance = MUST_HAVE

mandatory_skills(o) == SelectSeq(o.skill_requirements, is_mandatory)

set_problem_statement(o, ps) ==
    IF ~is_modifiable(o.status) THEN Raised(o)
    ELSE Returned([o EXCEPT !.problem_statement = Just(ps)])

add_skill_requirement(o, skill) ==
    IF ~is_modifiable(o.status) THEN Raised(o)
    ELSE IF \E i \in 1..Len(o.skill_requirements) :
               /\ Lower(o.skill_requirements[i].skill_name) = Lower(skill.skill_name)
               /\ o.skill_requirements[i].skill_category = skill.skill_category
         THEN Raised(o)
    ELSE Returned([o EXCEPT !.skill_requirements = Append(@, skill)])

(* Opportunity.remove_skill_requirement: the first matching skill is deleted *)
remove_skill_requirement(o, skill_name, skill_category) ==
    IF ~is_modifiable(o.status) THEN Raised(o)
    ELSE LET matches == {i \in 1..Len(o.skill_requirements) :
                            /\ Lower(o.skill_requirements[i].skill_name) = Lower(skill_name)
                            /\ o.skill_requirements[i].skill_category = skill_category}
         IN  IF matches = {} THEN Returned(o)
             ELSE LET k == CHOOSE i \in matches : \A j \in matches : i <= j
                  IN  Returned([o EXCEPT !.skill_requirements =
                                   SubSeq(@, 1, k - 1) \o SubSeq(@, k + 1, Len(@))])

set_timeline_specification(o, ts) ==
    IF ~is_modifiable(o.status) THEN Raised(o)
    ELSE Returned([o EXCEPT !.timeline_specification = Just(ts)])

(* domain/enums/timeline_flexibility.py *)
allows_adjustment(flexibility) == flexibility \in {"Flexible", "Negotiable"}

(* clone_opportunity that carries the status and the history over *)
clone_opportunity_with_history(o, new_title, cloned_by, now) ==
    IF Blank(new_title) \/ Blank(cloned_by) THEN Nothing
    ELSE Just([o EXCEPT !.title = new_title])

(* Opportunity.clone_opportunity: Nothing when the constructor raises, else *)
(* the new aggregate. Opportunity.__post_init__ gives it the status Draft   *)
(* and, its status_history being empty, the initial entry.                  *)
clone_opportunity(o, new_title, cloned_by, now) ==
    IF \/ Blank(new_title)
       \/ Blank(o.description)
       \/ Blank(cloned_by)
       \/ o.annual_recurring_revenue <= 0
    THEN Nothing
    ELSE Just([NewOpportunity(cloned_by, now) EXCEPT
                 !.title = new_title,
                 !.description = o.description,
                 !.annual_recurring_revenue = o.annual_recurring_revenue,
                 !.priority = o.priority,
                 !.skill_requirements = o.skill_requirements,
                 !.timeline_specification = o.timeline_specification,
                 !.problem_statement = o.problem_statement])

----------------------------------------------------------------------------
(* domain/services/opportunity_validation_service.py: each check returns   *)
(* the list of its error messages.                                         *)

ErrorIf(cond, msg) == IF cond THEN <<msg>> ELSE <<>>

(* validate_for_submission without the check of the mandatory skills *)
validate_for_submission_no_mandatory(o) ==
    ErrorIf(o.status # DRAFT, "Only draft opportunities can be submitted")
    \o (IF o.problem_statement = Nothing
        THEN <<"Problem statement is required for submission">>
        ELSE ErrorIf(~is_complete(ValueOf(o.problem_statement)),
                     "Problem statement must be complete with all sections filled"))
    \o ErrorIf(o.skill_requirements = <<>>,
               "At least one skill requirement must be specified")
    \o ErrorIf(o.timeline_specification = Nothing,
               "Timeline specification is required for submission")

validate_for_submission(o) ==
    ErrorIf(o.status # DRAFT, "Only draft opportunities can be submitted")
    \o (IF o.problem_statement = Nothing
        THEN <<"Problem statement is required for submission">>
        ELSE ErrorIf(~is_complete(ValueOf(o.problem_statement)),
                     "Problem statement must be complete with all sections filled"))
    \o ErrorIf(o.skill_requirements = <<>>,
               "At least one skill requirement must be specified")
    \o ErrorIf(mandatory_skills(o) = <<>>,
               "At least one mandatory skill requirement must be specified")
    \o ErrorIf(o.timeline_specification = Nothing,
               "Timeline specification is required for submission")

(* The keys of modification_data, in the order the requests list them; a  *)
(* key that is not in the dict is Nothing.                                 *)
ModificationKeys == <<"title", "description", "annual_recurring_revenue", "priority">>

RECURSIVE FieldErrors(_, _)
FieldErrors(modification_data, i) ==
    IF i > Len(ModificationKeys) THEN <<>>
    ELSE ErrorIf(/\ modification_data[ModificationKeys[i]] # Nothing
                 /\ ModificationKeys[i] \notin {"priority", "notes"},
                 "Field cannot be modified after architect selection")
         \o FieldErrors(modification_data, i + 1)

validate_for_modification(o, modification_data) ==
    (IF is_modifiable(o.status) THEN <<>>
     ELSE IF o.status = ARCHITECT_SELECTED THEN FieldErrors(modification_data, 1)
     ELSE <<"Opportunity cannot be modified in this status">>)
    \o ErrorIf(/\ modification_data.annual_recurring_revenue # Nothing
                /\ ValueOf(modification_data.annual_recurring_revenue) <= 0,
                "Annual Recurring Revenue must be positive")

validate_cancellation(o, reason) ==
    ErrorIf(is_final(o.status),
            "Cannot cancel a completed or already cancelled opportunity")
    \o ErrorIf(Blank(reason), "Cancellation reason is required")

ValidationWindowDays == 90

validate_reactivation(o, now) ==
    ErrorIf(o.status # CANCELLED, "Only cancelled opportunities can be reactivated")
    \o (IF o.cancellation_date = NoDate
        THEN <<"Cancellation date not found">>
        ELSE ErrorIf(now - DayOf(o.cancellation_date) > ValidationWindowDays,
                     "Cannot reactivate opportunity after 90 days"))

(* validate_architect_selection without the check of the architect id *)
validate_architect_selection_any_id(o, architect_id) ==
    ErrorIf(o.status # MATCHES_FOUND,
            "Can only select architect when matches are found")

validate_architect_selection(o, architect_id) ==
    ErrorIf(o.status # MATCHES_FOUND, "Can only select architect when matches are found")
    \o ErrorIf(Blank(architect_id), "Architect ID is required")

validate_completion(o) ==
    ErrorIf(o.status # ARCHITECT_SELECTED,
            "Can only complete opportunity after architect is selected")

----------------------------------------------------------------------------
(* The callers that work on the stored opportunity *)
Callers == {"first", "second"}

----------------------------------------------------------------------------
Init ==
    /\ today = 0
    /\ opportunity = NewOpportunity("sm_001", 0)
    /\ pc = "idle"
    /\ pending = None
    /\ result = NoResult
    /\ svc = [exists |-> FALSE]
    /\ svc_statuses = <<>>
    /\ svc_result = NoResult
    /\ adp = [exists |-> FALSE]
    /\ adp_statuses = <<>>
    /\ adp_result = NoResult
    /\ opportunities = [title |-> "T", version |-> 1]
    /\ loaded = [caller \in Callers |-> 0]
    /\ repo_result = NoResult

(* The clock advances. Only the reactivation window reads the clock, so    *)
(* time is let pass only while the opportunity is cancelled.               *)
AdvanceClock ==
    /\ pc = "idle"
    /\ \/ opportunity.status = CANCELLED
       \/ (svc.exists /\ svc.status = CANCELLED)
       \/ (adp.exists /\ adp.status = "CANCELLED")
    /\ \E d \in ClockSteps :
          /\ today + d <= MaxDay
          /\ today' = today + d
    /\ UNCHANGED <<domainVars, serviceVars, adapterVars, repositoryVars>>

----------------------------------------------------------------------------
(* Commands on the domain aggregate *)

HistoryHasRoom == Len(opportunity.status_history) < MaxHistory

(* A command that runs an entity method and reports whether it raised *)
Apply(op, r) ==
    /\ opportunity' = r.o
    /\ result' = Outcome(op, ~r.raised)
    /\ UNCHANGED <<today, pc, pending, serviceVars, adapterVars, repositoryVars>>

(* A command rejected by its validation: the aggregate is not touched *)
Reject(op) ==
    /\ result' = Outcome(op, FALSE)
    /\ UNCHANGED <<today, opportunity, pc, pending, serviceVars, adapterVars, repositoryVars>>

SetProblemStatement ==
    /\ pc = "idle"
    /\ \E ps \in ProblemStatements :
          Apply("set_problem_statement", set_problem_statement(opportunity, ps))

AddSkillRequirement ==
    /\ pc = "idle"
    /\ Len(opportunity.skill_requirements) < MaxSkills
    /\ \E skill \in SkillRequirements :
          Apply("add_skill_requirement", add_skill_requirement(opportunity, skill))

SetTimelineSpecification ==
    /\ pc = "idle"
    /\ \E ts \in TimelineSpecifications :
          Apply("set_timeline_specification", set_timeline_specification(opportunity, ts))

(* Requests of OpportunityModificationService.update_skill_requirements *)
AddSkillsInputs == {<<>>} \cup {<<skill>> : skill \in SkillRequirements}
RemoveSkillsInputs ==
    {<<>>} \cup {<<[skill_name |-> skill.skill_name,
                    skill_category |-> skill.skill_category]>> :
                    skill \in SkillRequirements}

(* the loop over skill_updates['add_skills']; a raise ends it *)
RECURSIVE AddSkills(_, _)
AddSkills(o, add_skills) ==
    IF add_skills = <<>> THEN Returned(o)
    ELSE LET r == add_skill_requirement(o, Head(add_skills))
         IN  IF r.raised THEN r ELSE AddSkills(r.o, Tail(add_skills))

(* the loop over skill_updates['remove_skills'] *)
RECURSIVE RemoveSkills(_, _)
RemoveSkills(o, remove_skills) ==
    IF remove_skills = <<>> THEN Returned(o)
    ELSE LET r == remove_skill_requirement(o, Head(remove_skills).skill_name,
                                           Head(remove_skills).skill_category)
         IN  IF r.raised THEN r ELSE RemoveSkills(r.o, Tail(remove_skills))

(* OpportunityModificationService.update_skill_requirements. The skills   *)
(* are added and removed first; the statement that follows,               *)
(* "from skills_validation_service import SkillsValidationService", then  *)
(* raises ImportError (the module has relative imports and is not a       *)
(* top-level module), which the handler reports as a failure.             *)
UpdateSkillRequirements ==
    /\ pc = "idle"
    /\ \E add_skills \in AddSkillsInputs, remove_skills \in RemoveSkillsInputs :
          /\ Len(opportunity.skill_requirements) + Len(add_skills) <= MaxSkills
          /\ IF ~is_modifiable(opportunity.status)
             THEN Reject("update_skill_requirements")
             ELSE LET added == AddSkills(opportunity, add_skills)
                      removed == IF added.raised THEN added
                                 ELSE RemoveSkills(added.o, remove_skills)
                  IN  Apply("update_skill_requirements", Raised(removed.o))

(* A command refused with its list of error messages *)
RejectWith(op, errors) ==
    /\ result' = [op |-> op, success |-> FALSE, errors |-> errors]
    /\ UNCHANGED <<today, opportunity, pc, pending, serviceVars, adapterVars, repositoryVars>>

(* Requests of OpportunityModificationService.update_basic_information *)
NoModification ==
    [title |-> Nothing, description |-> Nothing,
     annual_recurring_revenue |-> Nothing, priority |-> Nothing]

ModificationData ==
    {[NoModification EXCEPT !.title = Just("New")],
     [NoModification EXCEPT !.priority = Just("high")],
     [NoModification EXCEPT !.title = Just("New"), !.priority = Just("high")],
     [NoModification EXCEPT !.title = Just("New"), !.description = Just(" ")],
     [NoModification EXCEPT !.annual_recurring_revenue = Just(0)],
     [NoModification EXCEPT !.annual_recurring_revenue = Just(10)]}

(* Priority.from_string: the match ignores the case *)
from_string(priority_str) ==
    CASE priority_str \in {"Medium", "medium"} -> MEDIUM
      [] priority_str \in {"High", "high"} -> HIGH

(* str() of the amounts used here, as the f-string formats them *)
StrOfAmount(amount) ==
    CASE amount = 10 -> "10"
      [] amount = 0 -> "0"

(* One entry of changes_made: the field and the two values its text names *)
ChangeMade(field, old, new) == [field |-> field, old |-> old, new |-> new]

(* One "if key in modification_data" block of update_basic_information:   *)
(* acc is [raised, o, changes_made] so far, r the outcome of                *)
(* update_basic_info, change the entry appended when it returns.           *)
Updated(acc, r, change) ==
    [raised |-> r.raised, o |-> r.o,
     changes_made |-> IF r.raised THEN acc.changes_made
                      ELSE Append(acc.changes_made, change)]

(* "if 'title' in modification_data" *)
UpdateTitle(acc, modification_data) ==
    IF acc.raised \/ modification_data.title = Nothing THEN acc
    ELSE LET r == update_basic_info(acc.o, modification_data.title,
                                    Nothing, Nothing, Nothing)
         IN  Updated(acc, r, ChangeMade("title", acc.o.title, r.o.title))

(* "if 'description' in modification_data" *)
UpdateDescription(acc, modification_data) ==
    IF acc.raised \/ modification_data.description = Nothing THEN acc
    ELSE LET r == update_basic_info(acc.o, Nothing, modification_data.description,
                                    Nothing, Nothing)
         IN  Updated(acc, r, ChangeMade("description", None, None))

(* "if 'annual_recurring_revenue' in modification_data" *)
UpdateRevenue(acc, modification_data) ==
    IF acc.raised \/ modification_data.annual_recurring_revenue = Nothing THEN acc
    ELSE LET r == update_basic_info(acc.o, Nothing, Nothing,
                                    modification_data.annual_recurring_revenue,
                                    Nothing)
         IN  Updated(acc, r,
                     ChangeMade("annual_recurring_revenue",
                        StrOfAmount(acc.o.annual_recurring_revenue),
                        StrOfAmount(ValueOf(
                           modification_data.annual_recurring_revenue))))

(* "if 'priority' in modification_data" *)
UpdatePriority(acc, modification_data) ==
    IF acc.raised \/ modification_data.priority = Nothing THEN acc
    ELSE LET new_priority == from_string(ValueOf(modification_data.priority))
             r == update_basic_info(acc.o, Nothing, Nothing, Nothing,
                                    Just(new_priority))
         IN  Updated(acc, r, ChangeMade("priority", acc.o.priority, new_priority))

(* The try block of update_basic_information: the four blocks in turn,     *)
(* each on what the one before it left.                                    *)
UpdateFields(o, modification_data) ==
    CHOOSE out \in
        {UpdatePriority(a, modification_data) : a \in
        {UpdateRevenue(d, modification_data) : d \in
        {UpdateDescription(t, modification_data) : t \in
        {UpdateTitle([raised |-> FALSE, o |-> o, changes_made |-> <<>>],
                     modification_data)}}}} : TRUE

(* update_basic_information that writes the title whatever the status *)
update_basic_information_unguarded(o, modification_data) ==
    [o |-> IF modification_data.title = Nothing THEN o
           ELSE [o EXCEPT !.title = ValueOf(modification_data.title)],
     result |-> [op |-> "update_basic_information", success |-> TRUE,
                 changes_made |-> <<>>]]

(* OpportunityModificationService.update_basic_information: the aggregate *)
(* it leaves behind and the result it returns.                             *)
update_basic_information(o, modification_data) ==
    LET validation_errors == validate_for_modification(o, modification_data)
        r == UpdateFields(o, modification_data)
    IN  IF validation_errors # <<>>
        THEN [o |-> o,
              result |-> [op |-> "update_basic_information", success |-> FALSE,
                          errors |-> validation_errors]]
        ELSE [o |-> r.o,
              result |-> IF r.raised
                         THEN Outcome("update_basic_information", FALSE)
                         ELSE [op |-> "update_basic_information", success |-> TRUE,
                               changes_made |-> r.changes_made]]

UpdateBasicInformation ==
    /\ pc = "idle"
    /\ \E modification_data \in ModificationData :
          LET out == update_basic_information(opportunity, modification_data)
          IN  /\ opportunity' = out.o
              /\ result' = out.result
              /\ UNCHANGED <<today, pc, pending, serviceVars, adapterVars, repositoryVars>>

(* OpportunityModificationService.get_modification_permissions: the      *)
(* modifiable_fields it returns                                            *)
get_modification_permissions(o) ==
    IF is_modifiable(o.status)
    THEN {"title", "description", "priority", "arr", "skills", "timeline",
          "problem_statement"}
    ELSE IF o.status = ARCHITECT_SELECTED
    THEN {"priority", "notes"}
         \cup (IF /\ o.timeline_specification # Nothing
                  /\ allows_adjustment(ValueOf(o.timeline_specification).flexibility)
               THEN {"timeline"} ELSE {})
    ELSE {}

(* OpportunityModificationService.update_timeline. Past the check of the  *)
(* status, "from timeline_validation_service import                        *)
(* TimelineValidationService" raises ImportError, which the handler        *)
(* reports as a failure; set_timeline_specification is never reached.      *)
UpdateTimeline ==
    /\ pc = "idle"
    /\ \E timeline_data \in TimelineSpecifications :
          IF /\ opportunity.status = ARCHITECT_SELECTED
             /\ opportunity.timeline_specification # Nothing
             /\ ~allows_adjustment(ValueOf(opportunity.timeline_specification).flexibility)
          THEN RejectWith("update_timeline",
                  <<"Timeline cannot be modified for fixed timelines after architect selection">>)
          ELSE IF /\ opportunity.status # ARCHITECT_SELECTED
                  /\ ~is_modifiable(opportunity.status)
          THEN RejectWith("update_timeline", <<"Cannot modify timeline in this status">>)
          ELSE RejectWith("update_timeline",
                  <<"No module named 'timeline_validation_service'">>)

(* Requests of OpportunityModificationService.update_problem_statement *)
ProblemStatementData == {[business_impact |-> "impact"], [business_impact |-> None]}

(* OpportunityModificationService.update_problem_statement. An existing   *)
(* problem statement is updated in place; to create one the handler runs   *)
(* "from problem_statement import ProblemStatement", which raises          *)
(* ImportError.                                                            *)
UpdateProblemStatement ==
    /\ pc = "idle"
    /\ \E problem_statement_data \in ProblemStatementData :
          IF ~is_modifiable(opportunity.status)
          THEN RejectWith("update_problem_statement",
                  <<"Cannot modify problem statement in this status">>)
          ELSE IF opportunity.problem_statement = Nothing
          THEN RejectWith("update_problem_statement",
                  <<"No module named 'problem_statement'">>)
          ELSE Apply("update_problem_statement",
                  Returned([opportunity EXCEPT
                     !.problem_statement =
                         Just([ValueOf(@) EXCEPT
                                 !.business_impact =
                                     problem_statement_data.business_impact])]))

(* OpportunityApplicationService.clone_opportunity: the clone is handed   *)
(* back in the result; the opportunity cloned is not touched.              *)
CloneOpportunity ==
    /\ pc = "idle"
    /\ \E new_title \in {"", "Copy"}, user_id \in Users :
          LET cloned_opportunity ==
                  clone_opportunity(opportunity, new_title, user_id, today)
          IN  /\ result' = IF cloned_opportunity = Nothing
                            THEN Outcome("clone", FALSE)
                            ELSE [op |-> "clone", success |-> TRUE,
                                  cloned_opportunity |-> ValueOf(cloned_opportunity)]
              /\ UNCHANGED <<today, opportunity, pc, pending, serviceVars, adapterVars, repositoryVars>>

(* submit_opportunity that changes the status and records no entry *)
SubmitUnrecorded ==
    /\ pc = "idle"
    /\ HistoryHasRoom
    /\ \E submitted_by \in Users :
          IF validate_for_submission(opportunity) # <<>>
          THEN Reject("submit")
          ELSE Apply("submit",
                     change_status_no_history(opportunity, SUBMITTED, submitted_by,
                                   "Opportunity submitted for matching",
                                   "All required information provided", today))

(* StatusTransitionService.submit_opportunity *)
Submit ==
    /\ pc = "idle"
    /\ HistoryHasRoom
    /\ \E submitted_by \in Users :
          IF validate_for_submission(opportunity) # <<>>
          THEN Reject("submit")
          ELSE Apply("submit",
                     change_status(opportunity, SUBMITTED, submitted_by,
                                   "Opportunity submitted for matching",
                                   "All required information provided", today))

(* StatusTransitionService.start_matching_process *)
StartMatching ==
    /\ pc = "idle"
    /\ HistoryHasRoom
    /\ \E initiated_by \in Users :
          IF opportunity.status # SUBMITTED
          THEN Reject("start_matching")
          ELSE Apply("start_matching",
                     change_status(opportunity, MATCHING_IN_PROGRESS, initiated_by,
                                   "Matching process initiated",
                                   "Searching for suitable Solution Architects", today))

(* complete_matching_process that takes every outcome for "no matches" *)
complete_matching_process_no_matches(o, matches_found, completed_by, match_count, now) ==
    change_status(o, SUBMITTED, completed_by,
                  "No suitable matches found",
                  "Consider adjusting requirements or timeline", now)

(* The try block of complete_matching_process: the change of status the   *)
(* outcome of the matching asks for                                        *)
complete_matching_process(o, matches_found, completed_by, match_count, now) ==
    IF matches_found /\ match_count > 0
    THEN change_status(o, MATCHES_FOUND, completed_by,
                       "Matching process completed successfully",
                       "Found suitable Solution Architect(s)", now)
    ELSE change_status(o, SUBMITTED, completed_by,
                       "No suitable matches found",
                       "Consider adjusting requirements or timeline", now)

(* StatusTransitionService.complete_matching_process *)
CompleteMatching ==
    /\ pc = "idle"
    /\ HistoryHasRoom
    /\ \E completed_by \in Users, matches_found \in BOOLEAN, match_count \in {0, 1} :
          IF opportunity.status # MATCHING_IN_PROGRESS
          THEN Reject("complete_matching")
          ELSE Apply("complete_matching",
                     complete_matching_process(opportunity, matches_found,
                                               completed_by, match_count, today))

(* str(notes) of the stored notes, as the f-string formats it *)
StrOfNotes(notes) == IF notes = <<>> THEN <<"None">> ELSE notes

(* StatusTransitionService.select_architect, up to the entity call *)
SelectArchitect ==
    /\ pc = "idle"
    /\ HistoryHasRoom
    /\ \E architect_id \in ArchitectIds, selected_by \in Users, selection_notes \in SelectionNotes :
          IF validate_architect_selection(opportunity, architect_id) # <<>>
          THEN Reject("select_architect")
          ELSE LET r == select_architect(opportunity, architect_id, selected_by, today)
               IN  IF r.raised \/ selection_notes = None
                   THEN Apply("select_architect", r)
                   ELSE /\ opportunity' = r.o
                        /\ pc' = "annotate"
                        /\ pending' = selection_notes
                        /\ UNCHANGED <<today, result, serviceVars, adapterVars, repositoryVars>>

(* StatusTransitionService.select_architect: the selection notes are written *)
(* into the entry the entity has just appended.                              *)
AnnotateSelection ==
    /\ pc = "annotate"
    /\ LET n == Len(opportunity.status_history)
       IN  opportunity' =
             [opportunity EXCEPT !.status_history[n].notes =
                                     StrOfNotes(@) \o <<". ", pending>>]
    /\ pc' = "idle"
    /\ pending' = None
    /\ result' = Outcome("select_architect", TRUE)
    /\ UNCHANGED <<today, serviceVars, adapterVars, repositoryVars>>

(* complete_opportunity that writes the completion whatever the status *)
CompleteUnguarded ==
    /\ pc = "idle"
    /\ HistoryHasRoom
    /\ \E completed_by \in Users, completion_notes \in Notes :
          IF Blank(completed_by)
          THEN Reject("complete")
          ELSE Apply("complete",
                     Returned([opportunity EXCEPT
                        !.status_history =
                            Append(@, create_status_change(opportunity.status, COMPLETED,
                                         completed_by, "Opportunity completed",
                                         completion_notes, today)),
                        !.status = COMPLETED,
                        !.completion_date = OnDay(today)]))

(* StatusTransitionService.complete_opportunity *)
Complete ==
    /\ pc = "idle"
    /\ HistoryHasRoom
    /\ \E completed_by \in Users, completion_notes \in Notes :
          IF validate_completion(opportunity) # <<>>
          THEN Reject("complete")
          ELSE Apply("complete",
                     complete_opportunity(opportunity, completed_by,
                                          completion_notes, today))

(* cancel_opportunity that checks the reason only and writes the cancellation *)
CancelUnguarded ==
    /\ pc = "idle"
    /\ HistoryHasRoom
    /\ \E cancelled_by \in Users, reason \in Reasons :
          IF Blank(reason) \/ Blank(cancelled_by)
          THEN Reject("cancel")
          ELSE Apply("cancel",
                     Returned([opportunity EXCEPT
                        !.status_history =
                            Append(@, create_status_change(opportunity.status, CANCELLED,
                                         cancelled_by, reason, None, today)),
                        !.status = CANCELLED,
                        !.cancellation_date = OnDay(today),
                        !.cancellation_reason = reason]))

(* StatusTransitionService.cancel_opportunity, called without notes *)
Cancel ==
    /\ pc = "idle"
    /\ HistoryHasRoom
    /\ \E cancelled_by \in Users, reason \in Reasons :
          IF validate_cancellation(opportunity, reason) # <<>>
          THEN Reject("cancel")
          ELSE Apply("cancel",
                     cancel_opportunity(opportunity, cancelled_by, reason, None, today))

(* reactivate_opportunity that returns the opportunity to Draft whatever *)
(* the status                                                            *)
ReactivateUnguarded ==
    /\ pc = "idle"
    /\ HistoryHasRoom
    /\ \E reactivated_by \in Users :
          IF Blank(reactivated_by)
          THEN Reject("reactivate")
          ELSE Apply("reactivate",
                     Returned([opportunity EXCEPT
                        !.status_history =
                            Append(@, create_status_change(opportunity.status, DRAFT,
                                         reactivated_by, "Opportunity reactivated",
                                         None, today)),
                        !.status = DRAFT,
                        !.cancellation_date = NoDate,
                        !.cancellation_reason = None]))

(* StatusTransitionService.reactivate_opportunity, called without notes *)
Reactivate ==
    /\ pc = "idle"
    /\ HistoryHasRoom
    /\ \E reactivated_by \in Users :
          IF validate_reactivation(opportunity, today) # <<>>
          THEN Reject("reactivate")
          ELSE Apply("reactivate",
                     reactivate_opportunity(opportunity, reactivated_by, None, today))

Next ==
    \/ AdvanceClock
    \/ SetProblemStatement
    \/ AddSkillRequirement
    \/ SetTimelineSpecification
    \/ UpdateSkillRequirements
    \/ Submit
    \/ StartMatching
    \/ CompleteMatching
    \/ SelectArchitect
    \/ AnnotateSelection
    \/ Complete
    \/ Cancel
    \/ Reactivate

Spec == Init /\ [][Next]_vars

(* The aggregate under the commands of OpportunityModificationService and *)
(* the clone, beside the commands of the lifecycle. None of the added      *)
(* commands reads the clock, which is left standing.                       *)
NextModification ==
    \/ SetProblemStatement
    \/ AddSkillRequirement
    \/ SetTimelineSpecification
    \/ UpdateSkillRequirements
    \/ UpdateBasicInformation
    \/ UpdateTimeline
    \/ UpdateProblemStatement
    \/ CloneOpportunity
    \/ Submit
    \/ StartMatching
    \/ CompleteMatching
    \/ SelectArchitect
    \/ AnnotateSelection
    \/ Complete
    \/ Cancel
    \/ Reactivate

SpecModification == Init /\ [][NextModification]_vars

----------------------------------------------------------------------------
(* opportunity_management_service: OpportunityService over the in-memory   *)
(* repositories. A command that raises leaves success = FALSE.             *)

(* opportunity_status.py *)
is_valid_transition(current_status, new_status) ==
    new_status \in
      CASE current_status = DRAFT                -> {SUBMITTED, CANCELLED}
        [] current_status = SUBMITTED            -> {MATCHING_IN_PROGRESS, CANCELLED}
        [] current_status = MATCHING_IN_PROGRESS -> {MATCHES_FOUND, CANCELLED}
        [] current_status = MATCHES_FOUND        -> {ARCHITECT_SELECTED, CANCELLED}
        [] current_status = ARCHITECT_SELECTED   -> {COMPLETED, CANCELLED}
        [] current_status = COMPLETED            -> {}
        [] current_status = CANCELLED            -> {}
        [] OTHER                                 -> {}

create_status_record(status, changed_by, reason, now) ==
    [status |-> status, changed_by |-> changed_by, reason |-> reason, changed_at |-> now]

(* sorted(statuses, key=changed_at): a stable sort *)
RECURSIVE InsertByChangedAt(_, _)
InsertByChangedAt(sorted, x) ==
    IF sorted = <<>> THEN <<x>>
    ELSE IF sorted[Len(sorted)].changed_at <= x.changed_at THEN Append(sorted, x)
    ELSE Append(InsertByChangedAt(SubSeq(sorted, 1, Len(sorted) - 1), x),
                sorted[Len(sorted)])

RECURSIVE SortedByChangedAt(_)
SortedByChangedAt(records) ==
    IF records = <<>> THEN <<>>
    ELSE InsertByChangedAt(SortedByChangedAt(SubSeq(records, 1, Len(records) - 1)),
                           records[Len(records)])

(* InMemoryOpportunityStatusRepository.get_status_history *)
get_status_history(records) == SortedByChangedAt(records)

(* max(statuses, key=changed_at): the first of the records that carry the *)
(* greatest changed_at                                                     *)
RECURSIVE MaxByChangedAt(_, _, _)
MaxByChangedAt(records, i, best) ==
    IF i > Len(records) THEN best
    ELSE MaxByChangedAt(records, i + 1,
                        IF records[i].changed_at > best.changed_at
                        THEN records[i] ELSE best)

(* InMemoryOpportunityStatusRepository.get_current_status *)
get_current_status(records) ==
    IF records = <<>> THEN Nothing
    ELSE Just(MaxByChangedAt(records, 2, records[1]))

(* The callers of the service: the sales manager who owns the opportunity, *)
(* and a user who is neither the owner nor an admin.                       *)
ServiceUsers == {"owner", "stranger"}
Authorized(user_id) == user_id = "owner"

ServiceWindowDays == 90

(* OpportunityService.reactivate_opportunity: the status before cancellation *)
RECURSIVE ScanPrevious(_, _)
ScanPrevious(status_history, i) ==
    IF i < 1 THEN DRAFT
    ELSE IF status_history[i].status # CANCELLED THEN status_history[i].status
    ELSE ScanPrevious(status_history, i - 1)

(* previous_status without the scan: the default *)
previous_status_default(status_history) == DRAFT

previous_status(status_history) == ScanPrevious(status_history, Len(status_history) - 1)

SvcDone(op, ok) ==
    /\ svc_result' = Outcome(op, ok)
    /\ UNCHANGED <<today, domainVars, adapterVars, repositoryVars>>

SvcRaise(op) ==
    /\ SvcDone(op, FALSE)
    /\ UNCHANGED <<svc, svc_statuses>>

(* A command that raises: the one exception message is all the caller sees *)
SvcRaiseWith(op, message) ==
    /\ svc_result' = [op |-> op, success |-> FALSE, errors |-> <<message>>]
    /\ UNCHANGED <<today, domainVars, adapterVars, repositoryVars, svc, svc_statuses>>

SvcHasRoom == Len(svc_statuses) < MaxHistory

(* OpportunityService.create_opportunity *)
SvcCreate ==
    /\ ~svc.exists
    /\ \E is_sales_manager \in BOOLEAN :
          IF ~is_sales_manager THEN SvcRaise("create")
          ELSE /\ svc' = [exists |-> TRUE, title |-> "T", status |-> DRAFT,
                          submitted_at |-> NoDate, cancelled_at |-> NoDate,
                          cancellation_reason |-> None,
                          reactivation_deadline |-> NoDate,
                          problem_statement |-> FALSE,
                          skill_requirements |-> <<>>,
                          timeline |-> FALSE]
               /\ svc_statuses' = Append(svc_statuses,
                     create_status_record(DRAFT, "owner", "Opportunity created", today))
               /\ SvcDone("create", TRUE)

(* OpportunityService.add_problem_statement *)
SvcAddProblemStatement ==
    \E long_enough \in BOOLEAN :
       IF ~svc.exists THEN SvcRaise("add_problem_statement")
       ELSE IF svc.status # DRAFT THEN SvcRaise("add_problem_statement")
       ELSE IF ~long_enough THEN SvcRaise("add_problem_statement")
       ELSE IF svc.problem_statement THEN SvcRaise("add_problem_statement")
       ELSE /\ svc' = [svc EXCEPT !.problem_statement = TRUE]
            /\ SvcDone("add_problem_statement", TRUE)
            /\ UNCHANGED svc_statuses

(* The Skills Catalog holds one active skill *)
SkillsCatalog == {[name |-> "AWS Migration"]}

(* SkillRequirement.create_skill_requirement *)
create_skill_requirement(skill_name, skill_type, importance_level) ==
    [skill_name |-> skill_name, skill_type |-> skill_type,
     importance_level |-> importance_level]

(* OpportunityService.add_skill_requirement *)
SvcAddSkillRequirement ==
    \E skill \in SkillsCatalog, skill_type \in {"Technical"},
       importance_level \in {MUST_HAVE, NICE_TO_HAVE} :
       IF ~svc.exists THEN SvcRaise("add_skill_requirement")
       ELSE IF svc.status # DRAFT THEN SvcRaise("add_skill_requirement")
       ELSE /\ Len(svc.skill_requirements) < MaxServiceSkills
            /\ svc' = [svc EXCEPT !.skill_requirements =
                          Append(@, create_skill_requirement(skill.name, skill_type,
                                                             importance_level))]
            /\ SvcDone("add_skill_requirement", TRUE)
            /\ UNCHANGED svc_statuses

(* OpportunityService.add_timeline_requirement *)
SvcAddTimelineRequirement ==
    \E valid_dates \in BOOLEAN :
       IF ~svc.exists THEN SvcRaise("add_timeline_requirement")
       ELSE IF svc.status # DRAFT THEN SvcRaise("add_timeline_requirement")
       ELSE IF ~valid_dates THEN SvcRaise("add_timeline_requirement")
       ELSE IF svc.timeline THEN SvcRaise("add_timeline_requirement")
       ELSE /\ svc' = [svc EXCEPT !.timeline = TRUE]
            /\ SvcDone("add_timeline_requirement", TRUE)
            /\ UNCHANGED svc_statuses

(* OpportunityService.submit_opportunity *)
SvcSubmit ==
    /\ SvcHasRoom
    /\ \E user_id \in ServiceUsers :
       IF ~svc.exists THEN SvcRaiseWith("submit", "Opportunity not found")
       ELSE IF ~Authorized(user_id)
            THEN SvcRaiseWith("submit",
                    "Only the Sales Manager who created the opportunity or an Admin can submit it")
       ELSE IF ~svc.problem_statement
            THEN SvcRaiseWith("submit", "Problem statement is required before submission")
       ELSE IF svc.skill_requirements = <<>>
            THEN SvcRaiseWith("submit",
                    "At least one skill requirement is required before submission")
       ELSE IF ~\E i \in 1..Len(svc.skill_requirements) :
                    svc.skill_requirements[i].importance_level = MUST_HAVE
            THEN SvcRaiseWith("submit", "At least one 'Must Have' skill is required")
       ELSE IF ~svc.timeline
            THEN SvcRaiseWith("submit", "Timeline requirement is required before submission")
       ELSE /\ svc' = [svc EXCEPT !.status = SUBMITTED, !.submitted_at = OnDay(today)]
            /\ svc_statuses' = Append(svc_statuses,
                  create_status_record(SUBMITTED, user_id,
                                       "Opportunity submitted for matching", today))
            /\ SvcDone("submit", TRUE)

(* OpportunityService.cancel_opportunity *)
SvcCancel ==
    /\ SvcHasRoom
    /\ \E user_id \in ServiceUsers, reason \in Reasons :
       IF ~svc.exists THEN SvcRaise("cancel")
       ELSE IF ~Authorized(user_id) THEN SvcRaise("cancel")
       ELSE IF svc.status = COMPLETED THEN SvcRaise("cancel")
       ELSE IF reason = "" THEN SvcRaise("cancel")
       ELSE /\ svc' = [svc EXCEPT !.status = CANCELLED,
                                  !.cancelled_at = OnDay(today),
                                  !.cancellation_reason = reason,
                                  !.reactivation_deadline =
                                       OnDay(today + ServiceWindowDays)]
            /\ svc_statuses' = Append(svc_statuses,
                  create_status_record(CANCELLED, user_id, reason, today))
            /\ SvcDone("cancel", TRUE)

(* OpportunityService.reactivate_opportunity *)
SvcReactivate ==
    /\ SvcHasRoom
    /\ \E user_id \in ServiceUsers :
       IF ~svc.exists THEN SvcRaise("reactivate")
       ELSE IF ~Authorized(user_id) THEN SvcRaise("reactivate")
       ELSE IF svc.status # CANCELLED THEN SvcRaise("reactivate")
       ELSE IF svc.reactivation_deadline = NoDate
                 \/ today > DayOf(svc.reactivation_deadline)
            THEN SvcRaise("reactivate")
       ELSE LET previous == previous_status(get_status_history(svc_statuses))
            IN  /\ svc' = [svc EXCEPT !.status = previous,
                                      !.cancelled_at = NoDate,
                                      !.cancellation_reason = None,
                                      !.reactivation_deadline = NoDate]
                /\ svc_statuses' = Append(svc_statuses,
                      create_status_record(previous, user_id,
                                           "Opportunity reactivated", today))
                /\ SvcDone("reactivate", TRUE)

(* Opportunity.update_opportunity of the service's entity, called on the  *)
(* stored opportunity with the field "title". The record handed to         *)
(* change_record_creator is reported in the result.                        *)
SvcUpdateOpportunity ==
    /\ svc.exists
    /\ \E new_value \in {"T", "New"} :
          IF svc.status \in {ARCHITECT_SELECTED, COMPLETED}
          THEN SvcRaise("update_opportunity")
          ELSE /\ svc' = [svc EXCEPT !.title = new_value]
               /\ svc_result' = [op |-> "update_opportunity", success |-> TRUE,
                                  change_record |-> [field |-> "title",
                                                     old_value |-> svc.title,
                                                     new_value |-> new_value]]
               /\ UNCHANGED <<today, domainVars, adapterVars, repositoryVars, svc_statuses>>

NextService ==
    \/ AdvanceClock
    \/ SvcCreate
    \/ SvcAddProblemStatement
    \/ SvcAddSkillRequirement
    \/ SvcAddTimelineRequirement
    \/ SvcSubmit
    \/ SvcCancel
    \/ SvcReactivate

SpecService == Init /\ [][NextService]_vars

(* The service with the update of a field of the stored opportunity; the  *)
(* update does not read the clock, which is left standing.                 *)
NextServiceUpdate ==
    \/ SvcCreate
    \/ SvcAddProblemStatement
    \/ SvcAddSkillRequirement
    \/ SvcAddTimelineRequirement
    \/ SvcSubmit
    \/ SvcCancel
    \/ SvcReactivate
    \/ SvcUpdateOpportunity

SpecServiceUpdate == Init /\ [][NextServiceUpdate]_vars

----------------------------------------------------------------------------
(* opportunity_api: OpportunityServiceAdapter over the database session.   *)
(* The status column holds the upper-case names.                           *)

(* query(OpportunityStatus).order_by(changed_at.desc()): the rows of one   *)
(* opportunity are written by separate requests and read their changed_at  *)
(* when inserted, so the most recently inserted row comes first.           *)
RECURSIVE Reversed(_)
Reversed(rows) ==
    IF rows = <<>> THEN <<>>
    ELSE <<rows[Len(rows)]>> \o Reversed(SubSeq(rows, 1, Len(rows) - 1))

order_by_changed_at_desc(rows) == Reversed(SortedByChangedAt(rows))

(* OpportunityServiceAdapter.reactivate_opportunity: the status before     *)
(* cancellation, from the rows after the first one                         *)
RECURSIVE ScanRows(_, _)
ScanRows(status_history, i) ==
    IF i > Len(status_history) THEN "DRAFT"
    ELSE IF status_history[i].status # "CANCELLED" THEN status_history[i].status
    ELSE ScanRows(status_history, i + 1)

adapter_previous_status(status_history) == ScanRows(status_history, 2)

AdpDone(op, ok) ==
    /\ adp_result' = Outcome(op, ok)
    /\ UNCHANGED <<today, domainVars, serviceVars, repositoryVars>>

AdpRaise(op) ==
    /\ AdpDone(op, FALSE)
    /\ UNCHANGED <<adp, adp_statuses>>

AdpHasRoom == Len(adp_statuses) < MaxHistory

(* OpportunityServiceAdapter.create_opportunity *)
AdpCreate ==
    /\ ~adp.exists
    /\ \E title \in {"", "X"}, annual_recurring_revenue \in {-1, 0} :
          IF Blank(title) THEN AdpRaise("create")
          ELSE IF annual_recurring_revenue < 0 THEN AdpRaise("create")
          ELSE /\ adp' = [exists |-> TRUE, status |-> "DRAFT",
                          submitted_at |-> NoDate, cancelled_at |-> NoDate,
                          cancellation_reason |-> None,
                          reactivation_deadline |-> NoDate,
                          problem_statement |-> FALSE,
                          skill_requirements |-> <<>>,
                          timeline |-> FALSE]
               /\ adp_statuses' = Append(adp_statuses,
                     create_status_record("DRAFT", "user", "Opportunity created", today))
               /\ AdpDone("create", TRUE)

(* OpportunityServiceAdapter.add_problem_statement *)
AdpAddProblemStatement ==
    \E long_enough \in BOOLEAN :
       IF ~adp.exists THEN AdpRaise("add_problem_statement")
       ELSE IF adp.status # "DRAFT" THEN AdpRaise("add_problem_statement")
       ELSE IF ~long_enough THEN AdpRaise("add_problem_statement")
       ELSE IF adp.problem_statement THEN AdpRaise("add_problem_statement")
       ELSE /\ adp' = [adp EXCEPT !.problem_statement = TRUE]
            /\ AdpDone("add_problem_statement", TRUE)
            /\ UNCHANGED adp_statuses

(* OpportunityServiceAdapter.add_skill_requirement *)
AdpAddSkillRequirement ==
    \E importance_level \in {"MUST_HAVE", "NICE_TO_HAVE"} :
       IF ~adp.exists THEN AdpRaise("add_skill_requirement")
       ELSE IF adp.status # "DRAFT" THEN AdpRaise("add_skill_requirement")
       ELSE /\ Len(adp.skill_requirements) < MaxSkills
            /\ adp' = [adp EXCEPT !.skill_requirements = Append(@, importance_level)]
            /\ AdpDone("add_skill_requirement", TRUE)
            /\ UNCHANGED adp_statuses

(* OpportunityServiceAdapter.add_timeline_requirement *)
AdpAddTimelineRequirement ==
    IF ~adp.exists THEN AdpRaise("add_timeline_requirement")
    ELSE IF adp.status # "DRAFT" THEN AdpRaise("add_timeline_requirement")
    ELSE IF adp.timeline THEN AdpRaise("add_timeline_requirement")
    ELSE /\ adp' = [adp EXCEPT !.timeline = TRUE]
         /\ AdpDone("add_timeline_requirement", TRUE)
         /\ UNCHANGED adp_statuses

(* OpportunityServiceAdapter.submit_opportunity *)
AdpSubmit ==
    /\ AdpHasRoom
    /\ IF ~adp.exists THEN AdpRaise("submit")
       ELSE IF adp.status # "DRAFT" THEN AdpRaise("submit")
       ELSE IF ~adp.problem_statement THEN AdpRaise("submit")
       ELSE IF adp.skill_requirements = <<>> THEN AdpRaise("submit")
       ELSE IF ~\E i \in 1..Len(adp.skill_requirements) :
                    adp.skill_requirements[i] = "MUST_HAVE"
            THEN AdpRaise("submit")
       ELSE IF ~adp.timeline THEN AdpRaise("submit")
       ELSE /\ adp' = [adp EXCEPT !.status = "SUBMITTED", !.submitted_at = OnDay(today)]
            /\ adp_statuses' = Append(adp_statuses,
                  create_status_record("SUBMITTED", "user",
                                       "Opportunity submitted for matching", today))
            /\ AdpDone("submit", TRUE)

(* OpportunityServiceAdapter.cancel_opportunity *)
AdpCancel ==
    /\ AdpHasRoom
    /\ \E reason \in Reasons :
       IF ~adp.exists THEN AdpRaise("cancel")
       ELSE IF adp.status = "COMPLETED" THEN AdpRaise("cancel")
       ELSE IF Blank(reason) THEN AdpRaise("cancel")
       ELSE /\ adp' = [adp EXCEPT !.status = "CANCELLED",
                                  !.cancelled_at = OnDay(today),
                                  !.cancellation_reason = reason,
                                  !.reactivation_deadline = OnDay(today)]
            /\ adp_statuses' = Append(adp_statuses,
                  create_status_record("CANCELLED", "user", reason, today))
            /\ AdpDone("cancel", TRUE)

(* OpportunityServiceAdapter.reactivate_opportunity *)
AdpReactivate ==
    /\ AdpHasRoom
    /\ IF ~adp.exists THEN AdpRaise("reactivate")
       ELSE IF adp.status # "CANCELLED" THEN AdpRaise("reactivate")
       ELSE LET previous ==
                  adapter_previous_status(order_by_changed_at_desc(adp_statuses))
            IN  /\ adp' = [adp EXCEPT !.status = previous,
                                      !.cancelled_at = NoDate,
                                      !.cancellation_reason = None,
                                      !.reactivation_deadline = NoDate]
                /\ adp_statuses' = Append(adp_statuses,
                      create_status_record(previous, "user",
                                           "Opportunity reactivated", today))
                /\ AdpDone("reactivate", TRUE)

NextAdapter ==
    \/ AdvanceClock
    \/ AdpCreate
    \/ AdpAddProblemStatement
    \/ AdpAddSkillRequirement
    \/ AdpAddTimelineRequirement
    \/ AdpSubmit
    \/ AdpCancel
    \/ AdpReactivate

SpecAdapter == Init /\ [][NextAdapter]_vars

----------------------------------------------------------------------------
(* infrastructure/repositories/in_memory_opportunity_repository.py: two    *)
(* callers work on the opportunity the repository holds. find_by_id hands  *)
(* out the stored object itself, so what a caller writes through it is     *)
(* seen by the other at once; loaded[caller] is the version the caller has *)
(* last seen, after its own calls.                                         *)

(* BaseEntity.update_timestamp *)
update_timestamp(entity) == [entity EXCEPT !.version = @ + 1]

RepoDone(op, caller) ==
    /\ repo_result' = [op |-> op, success |-> TRUE, caller |-> caller]
    /\ UNCHANGED <<today, domainVars, serviceVars, adapterVars>>

(* InMemoryOpportunityRepository.find_by_id *)
RepoFindById ==
    \E caller \in Callers :
       /\ loaded' = [loaded EXCEPT ![caller] = opportunities.version]
       /\ UNCHANGED opportunities
       /\ RepoDone("find_by_id", caller)

(* Opportunity.update_basic_info(title=...) through the object loaded *)
RepoUpdateBasicInfo ==
    \E caller \in Callers, title \in {"A", "B"} :
       /\ loaded[caller] # 0
       /\ opportunities.version < MaxVersion
       /\ opportunities' = update_timestamp([opportunities EXCEPT !.title = title])
       /\ loaded' = [loaded EXCEPT ![caller] = opportunities'.version]
       /\ RepoDone("update_basic_info", caller)

(* InMemoryOpportunityRepository.save of the object loaded: the id is in  *)
(* the repository, so the timestamp is updated; the object is stored.      *)
RepoSave ==
    \E caller \in Callers :
       /\ loaded[caller] # 0
       /\ opportunities.version < MaxVersion
       /\ opportunities' = update_timestamp(opportunities)
       /\ loaded' = [loaded EXCEPT ![caller] = opportunities'.version]
       /\ RepoDone("save", caller)

NextRepository ==
    \/ RepoFindById
    \/ RepoUpdateBasicInfo
    \/ RepoSave

SpecRepository == Init /\ [][NextRepository]_vars

----------------------------------------------------------------------------
(* Properties *)

(* The transition table of the specification, section 4.1; prior is the   *)
(* status held immediately before cancellation.                           *)
TableRow(from, prior) ==
    CASE from = DRAFT                -> {SUBMITTED, CANCELLED}
      [] from = SUBMITTED            -> {MATCHING_IN_PROGRESS, CANCELLED}
      [] from = MATCHING_IN_PROGRESS -> {MATCHES_FOUND, CANCELLED}
      [] from = MATCHES_FOUND        -> {ARCHITECT_SELECTED, CANCELLED}
      [] from = ARCHITECT_SELECTED   -> {COMPLETED, CANCELLED}
      [] from = COMPLETED            -> {}
      [] from = CANCELLED            -> {prior}

history == opportunity.status_history
LastEntry == history[Len(history)]

(* The status the aggregate held when it was cancelled *)
StatusBeforeCancellation == LastEntry.from_status

StatusOps ==
    {"submit", "start_matching", "complete_matching", "select_architect",
     "complete", "cancel", "reactivate"}

(* C1: for every pair (from, to), can_transition_to(from, to) holds exactly *)
(* when to is in the table row of from; the row of Cancelled is the status  *)
(* held immediately before the cancellation.                                *)
C1_CanTransitionMatchesTable ==
    /\ \A from \in OpportunityStatus \ {CANCELLED}, to \in OpportunityStatus :
          can_transition_to(from, to) <=> to \in TableRow(from, None)
    /\ opportunity.status = CANCELLED =>
          \A to \in OpportunityStatus :
             can_transition_to(CANCELLED, to)
                <=> to \in TableRow(CANCELLED, StatusBeforeCancellation)

(* The reactivation target read off the history: the status of the latest *)
(* entry before the last one that is not Cancelled, Draft if there is none *)
TargetFromHistory(h) ==
    LET candidates == {i \in 1..(Len(h) - 1) : h[i].status # CANCELLED}
    IN  IF candidates = {} THEN DRAFT
        ELSE h[CHOOSE i \in candidates : \A j \in candidates : j <= i].status

(* C2: every change of the status made by a command of OpportunityService *)
(* is a transition the table allows.                                      *)
C2_EveryChangeIsAllowed ==
    [][(svc.exists /\ svc'.exists /\ svc'.status # svc.status) =>
          svc'.status \in TableRow(svc.status,
                                   TargetFromHistory(get_status_history(svc_statuses)))]_vars

(* A step in which a status command of the domain was accepted *)
StatusCommandAccepted ==
    /\ today' = today
    /\ pc = "idle"
    /\ \/ (result'.success /\ result'.op \in StatusOps)
       \/ pc' = "annotate"
       \/ opportunity'.status # opportunity.status

(* C3: every accepted status command appends exactly one StatusHistory entry *)
C3_AcceptedChangeAppendsOne ==
    [][StatusCommandAccepted =>
          /\ Len(opportunity'.status_history) = Len(opportunity.status_history) + 1
          /\ SubSeq(opportunity'.status_history, 1, Len(opportunity.status_history))
                = opportunity.status_history]_vars

C3_Witness ==
    /\ result = Outcome("cancel", TRUE)
    /\ Len(history) = 3
    /\ LastEntry.to_status = CANCELLED

(* A step in which a status command of the domain was rejected *)
StatusCommandRejected ==
    /\ today' = today
    /\ pc = "idle"
    /\ pc' = "idle"
    /\ ~result'.success
    /\ result'.op \in StatusOps

(* C4: a rejected status change appends no StatusHistory entry and leaves *)
(* the status unchanged.                                                  *)
C4_RejectedChangeLeavesHistory ==
    [][StatusCommandRejected =>
          /\ opportunity'.status_history = opportunity.status_history
          /\ opportunity'.status = opportunity.status]_vars

(* change_status has refused the transition Matching in Progress -> Submitted *)
C4_Witness ==
    /\ result = Outcome("complete_matching", FALSE)
    /\ opportunity.status = MATCHING_IN_PROGRESS

(* C5: a StatusHistory entry, once appended, is never changed or removed *)
C5_EntriesImmutable ==
    [][\A i \in 1..Len(opportunity.status_history) :
          /\ i <= Len(opportunity'.status_history)
          /\ opportunity'.status_history[i] = opportunity.status_history[i]]_vars

(* C6: the to_status of the last StatusHistory entry is the current status *)
C6_LastEntryIsCurrentStatus == LastEntry.to_status = opportunity.status

C6_Witness ==
    /\ Len(history) >= 4
    /\ opportunity.status = DRAFT
    /\ LastEntry.from_status = CANCELLED

(* C7: reactivation returns the opportunity to the status it held        *)
(* immediately before the cancellation.                                   *)
C7_ReactivationRestoresStatus ==
    [][(opportunity.status = CANCELLED /\ opportunity'.status # CANCELLED) =>
          opportunity'.status = StatusBeforeCancellation]_vars

SvcReactivated ==
    /\ svc_result' = Outcome("reactivate", TRUE)
    /\ Len(svc_statuses') = Len(svc_statuses) + 1

(* C8: the status a reactivation restores is the status of the most recent *)
(* history entry, the current Cancelled one skipped, that is not Cancelled. *)
C8_TargetDerivedFromHistory ==
    [][SvcReactivated =>
          /\ svc'.status = TargetFromHistory(get_status_history(svc_statuses))
          /\ svc_statuses'[Len(svc_statuses')].status = svc'.status]_vars

(* A reactivation that skipped two Cancelled entries and restored Submitted *)
C8_Witness ==
    /\ svc_result = Outcome("reactivate", TRUE)
    /\ Len(svc_statuses) >= 5
    /\ LET n == Len(svc_statuses)
       IN  /\ svc_statuses[n].status = SUBMITTED
           /\ svc_statuses[n - 1].status = CANCELLED
           /\ svc_statuses[n - 2].status = CANCELLED
           /\ svc_statuses[n - 3].status = SUBMITTED
    /\ svc.status = SUBMITTED

(* C9: a reactivation of a cancelled opportunity is accepted up to 90 days *)
(* after the cancellation and refused from the 91st day on.               *)
C9_WindowIsInclusive ==
    [][(/\ today' = today
        /\ adp.exists
        /\ adp.status = "CANCELLED"
        /\ adp_result'.op = "reactivate"
        /\ adp_result' # adp_result \/ adp' # adp) =>
          (adp_result'.success
             <=> today - DayOf(adp.cancelled_at) <= EntityWindowDays)]_vars

SvcExpired ==
    /\ svc.exists
    /\ svc.status = CANCELLED
    /\ svc.cancelled_at # NoDate
    /\ today - DayOf(svc.cancelled_at) > ServiceWindowDays

(* C10: once more than 90 days have passed since the cancellation, the    *)
(* opportunity stays Cancelled and stays out of the reactivation window.  *)
C10_ExpiredCancellationIsTerminal ==
    [][SvcExpired => SvcExpired']_vars

(* C11: a successful cancellation sets reactivation_deadline to the       *)
(* recorded cancellation instant plus 90 days exactly.                     *)
C11_DeadlineIsCancellationPlus90 ==
    [][(/\ today' = today
        /\ adp.exists
        /\ adp_result' = Outcome("cancel", TRUE)
        /\ Len(adp_statuses') = Len(adp_statuses) + 1) =>
          /\ adp'.cancelled_at # NoDate
          /\ adp'.reactivation_deadline =
                 OnDay(DayOf(adp'.cancelled_at) + ServiceWindowDays)]_vars

(* C12: once Completed, the status and the history never change again, and *)
(* every status command issued from Completed fails.                       *)
C12_CompletedIsTerminal ==
    [][opportunity.status = COMPLETED =>
          /\ opportunity'.status = COMPLETED
          /\ opportunity'.status_history = opportunity.status_history
          /\ (today' = today /\ result'.op \in StatusOps) => ~result'.success]_vars

(* A cancellation of a Completed opportunity has been refused *)
C12_Witness ==
    /\ opportunity.status = COMPLETED
    /\ result = Outcome("cancel", FALSE)
    /\ opportunity.completion_date # NoDate

(* The opportunity lacks one of the items a submission requires *)
MissingForSubmission(o) ==
    \/ o.problem_statement = Nothing
    \/ o.skill_requirements = <<>>
    \/ ~\E i \in 1..Len(o.skill_requirements) :
           o.skill_requirements[i].importance = MUST_HAVE
    \/ o.timeline_specification = Nothing

(* C13: submitting a Draft opportunity that lacks the problem statement, a *)
(* skill requirement, a Must-Have skill or the timeline fails and leaves   *)
(* the status Draft and the history as it was.                             *)
C13_IncompleteSubmissionFails ==
    [][(/\ today' = today
        /\ pc = "idle"
        /\ opportunity.status = DRAFT
        /\ MissingForSubmission(opportunity)
        /\ result'.op = "submit") =>
          /\ ~result'.success
          /\ opportunity'.status = DRAFT
          /\ opportunity'.status_history = opportunity.status_history]_vars

(* A submission refused only because no skill is Must-Have *)
C13_Witness ==
    /\ result = Outcome("submit", FALSE)
    /\ opportunity.status = DRAFT
    /\ Len(history) = 1
    /\ opportunity.problem_statement # Nothing
    /\ is_complete(ValueOf(opportunity.problem_statement))
    /\ opportunity.timeline_specification # Nothing
    /\ opportunity.skill_requirements # <<>>
    /\ mandatory_skills(opportunity) = <<>>

(* The submission checks of OpportunityService that do not hold *)
SvcUnmetChecks ==
    {c \in {"problem_statement", "skill_requirement", "must_have", "timeline"} :
        \/ c = "problem_statement" /\ ~svc.problem_statement
        \/ c = "skill_requirement" /\ svc.skill_requirements = <<>>
        \/ c = "must_have" /\ ~\E i \in 1..Len(svc.skill_requirements) :
                                    svc.skill_requirements[i].importance_level = MUST_HAVE
        \/ c = "timeline" /\ ~svc.timeline}

(* C14: a failed submission reports one failure for each submission check *)
(* that does not hold.                                                     *)
C14_AllFailuresReported ==
    [][(/\ today' = today
        /\ svc.exists
        /\ svc_result'.op = "submit"
        /\ ~svc_result'.success) =>
          Len(svc_result'.errors) >= Cardinality(SvcUnmetChecks)]_vars

(* C15: a submit issued in a status other than Draft is rejected and      *)
(* leaves the status and the status records unchanged.                     *)
C15_SubmitRequiresDraft ==
    [][(/\ today' = today
        /\ svc.exists
        /\ svc.status # DRAFT
        /\ svc_result'.op = "submit") =>
          /\ ~svc_result'.success
          /\ svc'.status = svc.status
          /\ svc_statuses' = svc_statuses]_vars

(* A step in which select_architect was accepted *)
ArchitectSelectionAccepted ==
    /\ today' = today
    /\ pc = "idle"
    /\ \/ pc' = "annotate"
       \/ /\ pc' = "idle"
          /\ result' = Outcome("select_architect", TRUE)
          /\ opportunity' # opportunity

(* A step in which select_architect was refused *)
ArchitectSelectionRejected ==
    /\ today' = today
    /\ pc = "idle"
    /\ pc' = "idle"
    /\ result' = Outcome("select_architect", FALSE)

(* C16: select_architect is accepted only from Matches Found with a       *)
(* non-empty architect id; from any other status it is rejected and the    *)
(* aggregate is left as it was.                                            *)
C16_SelectionNeedsMatchesFound ==
    [][/\ ArchitectSelectionAccepted =>
           /\ opportunity.status = MATCHES_FOUND
           /\ ~Blank(opportunity'.selected_architect_id)
           /\ opportunity'.selected_architect_id # None
           /\ opportunity'.status = ARCHITECT_SELECTED
       /\ (ArchitectSelectionRejected /\ opportunity.status # MATCHES_FOUND) =>
           opportunity' = opportunity
       /\ (today' = today /\ pc = "idle" /\ pc' = "idle"
             /\ result'.op = "select_architect"
             /\ opportunity.status # MATCHES_FOUND) => ~result'.success]_vars

C16_Witness ==
    /\ result = Outcome("select_architect", TRUE)
    /\ pc = "idle"
    /\ opportunity.status = ARCHITECT_SELECTED
    /\ opportunity.selected_architect_id = "arch_1"
    /\ LastEntry.from_status = MATCHES_FOUND

(* C17: complete is accepted only from Architect Selected; from any other *)
(* status it is rejected and changes nothing.                              *)
C17_CompletionNeedsArchitectSelected ==
    [][(today' = today /\ pc = "idle" /\ pc' = "idle" /\ result'.op = "complete") =>
          IF opportunity.status = ARCHITECT_SELECTED
          THEN result'.success => opportunity'.status = COMPLETED
          ELSE ~result'.success /\ opportunity' = opportunity]_vars

(* complete has been refused on a Draft opportunity *)
C17_Witness ==
    /\ result = Outcome("complete", FALSE)
    /\ opportunity.status = DRAFT
    /\ Len(history) = 1

(* C18: reactivate is rejected whenever the status is not Cancelled and   *)
(* then leaves the status and the history unchanged.                       *)
C18_ReactivationNeedsCancelled ==
    [][(/\ today' = today /\ pc = "idle" /\ pc' = "idle"
        /\ result'.op = "reactivate"
        /\ opportunity.status # CANCELLED) =>
          /\ ~result'.success
          /\ opportunity'.status = opportunity.status
          /\ opportunity'.status_history = opportunity.status_history]_vars

(* A second reactivate right after a successful reactivation was refused *)
C18_Witness ==
    /\ result = Outcome("reactivate", FALSE)
    /\ opportunity.status = DRAFT
    /\ Len(history) >= 3
    /\ LastEntry.from_status = CANCELLED
    /\ LastEntry.to_status = DRAFT

(* A step in which a command was refused for a precondition that does not *)
(* hold: something a submission requires is missing, the skills are        *)
(* insufficient, the status is wrong for the command, the reactivation     *)
(* window has expired, or the status does not allow the modification.      *)
ExpectedFailure ==
    /\ today' = today
    /\ pc = "idle"
    /\ pc' = "idle"
    /\ ~result'.success
    /\ \/ /\ result'.op = "submit"
          /\ opportunity.status # DRAFT \/ MissingForSubmission(opportunity)
       \/ /\ result'.op = "update_skill_requirements"
          /\ \/ ~is_modifiable(opportunity.status)
             \/ mandatory_skills(opportunity') = <<>>
       \/ result'.op = "start_matching" /\ opportunity.status # SUBMITTED
       \/ result'.op = "complete_matching" /\ opportunity.status # MATCHING_IN_PROGRESS
       \/ result'.op = "select_architect" /\ opportunity.status # MATCHES_FOUND
       \/ result'.op = "complete" /\ opportunity.status # ARCHITECT_SELECTED
       \/ result'.op = "cancel" /\ is_final(opportunity.status)
       \/ /\ result'.op = "reactivate"
          /\ \/ opportunity.status # CANCELLED
             \/ today - DayOf(opportunity.cancellation_date) > EntityWindowDays

(* C19: a command refused for an expected precondition failure leaves the *)
(* whole aggregate as it was before the call.                              *)
C19_FailureLeavesAggregateUnchanged ==
    [][ExpectedFailure => opportunity' = opportunity]_vars

(* C20: in Draft and in Submitted a modification with a valid value is    *)
(* accepted.                                                               *)
C20_ModifiableInDraftAndSubmitted ==
    [][(/\ today' = today
        /\ svc.exists
        /\ svc.status \in {DRAFT, SUBMITTED}
        /\ svc_result'.op = "add_skill_requirement") =>
          svc_result'.success]_vars

(* The statuses in which no field may be changed *)
FrozenStatuses == {MATCHING_IN_PROGRESS, MATCHES_FOUND, COMPLETED, CANCELLED}

(* C21: in Matching in Progress, Matches Found, Completed and Cancelled   *)
(* an update of a field of the opportunity is rejected and the field      *)
(* keeps its value.                                                        *)
C21_NoMutationInFrozenStatuses ==
    [][(/\ svc.exists
        /\ svc.status \in FrozenStatuses
        /\ svc_result'.op = "update_opportunity") =>
          /\ ~svc_result'.success
          /\ svc'.title = svc.title]_vars

(* C22: while the status is Architect Selected a modification that names  *)
(* the title fails, and the title keeps its value.                         *)
C22_TitleFrozenAfterSelection ==
    [][opportunity.status = ARCHITECT_SELECTED =>
          /\ opportunity'.title = opportunity.title
          /\ \A modification_data \in ModificationData :
                modification_data.title # Nothing =>
                   LET out == update_basic_information(opportunity, modification_data)
                   IN  /\ ~out.result.success
                       /\ out.o.title = opportunity.title]_vars

(* The request to set the title to "New" has been refused after the       *)
(* architect was selected.                                                 *)
C22_Witness ==
    /\ opportunity.status = ARCHITECT_SELECTED
    /\ opportunity.title = "T"
    /\ result = [op |-> "update_basic_information", success |-> FALSE,
                  errors |-> <<"Field cannot be modified after architect selection">>]

(* The requests that name the priority and nothing else *)
PriorityOnly ==
    {modification_data \in ModificationData :
        /\ modification_data.priority # Nothing
        /\ modification_data.title = Nothing
        /\ modification_data.description = Nothing
        /\ modification_data.annual_recurring_revenue = Nothing}

(* C23: while the status is Architect Selected a modification that names  *)
(* only the priority is accepted and the new priority is applied.          *)
C23_PriorityChangeAfterSelection ==
    opportunity.status = ARCHITECT_SELECTED =>
       \A modification_data \in PriorityOnly :
          LET out == update_basic_information(opportunity, modification_data)
          IN  /\ out.result.success
              /\ out.o.priority = from_string(ValueOf(modification_data.priority))

(* C24: while the status is Architect Selected a change of the timeline   *)
(* is accepted exactly when the flexibility of the current timeline allows *)
(* adjustment.                                                             *)
C24_TimelineChangeFollowsFlexibility ==
    [][(/\ pc = "idle"
        /\ pc' = "idle"
        /\ opportunity.status = ARCHITECT_SELECTED
        /\ opportunity.timeline_specification # Nothing
        /\ result'.op = "update_timeline") =>
          (result'.success
             <=> allows_adjustment(
                    ValueOf(opportunity.timeline_specification).flexibility))]_vars

(* The entries of changes_made that are about the field *)
RecordsOf(changes_made, field) ==
    {i \in 1..Len(changes_made) : changes_made[i].field = field}

(* C25: an accepted modification of title, description, ARR or priority   *)
(* in Draft or Submitted reports exactly one change for each field whose   *)
(* value has changed, and none for a field whose value is as it was.       *)
C25_OneRecordPerChangedField ==
    [][(/\ pc = "idle"
        /\ pc' = "idle"
        /\ is_modifiable(opportunity.status)
        /\ result'.op = "update_basic_information"
        /\ result'.success) =>
          \A i \in 1..Len(ModificationKeys) :
             Cardinality(RecordsOf(result'.changes_made, ModificationKeys[i]))
                = IF opportunity'[ModificationKeys[i]] # opportunity[ModificationKeys[i]]
                  THEN 1 ELSE 0]_vars

(* C26: no two skill requirements of the opportunity share the pair of    *)
(* skill name and skill category.                                          *)
C26_SkillPairsUnique ==
    svc.exists =>
       \A i, j \in 1..Len(svc.skill_requirements) :
          i # j =>
             <<svc.skill_requirements[i].skill_name,
               svc.skill_requirements[i].skill_type>>
                # <<svc.skill_requirements[j].skill_name,
                     svc.skill_requirements[j].skill_type>>

(* C27: whatever the status and the history of the opportunity cloned,    *)
(* the clone is in Draft and its status history is the one initial entry,  *)
(* from no status to Draft; nothing of the selection, the completion or    *)
(* the cancellation of the source is carried over.                         *)
C27_CloneStartsFreshTrail ==
    (result.op = "clone" /\ result.success) =>
       LET cloned == result.cloned_opportunity
       IN  /\ cloned.status = DRAFT
           /\ Len(cloned.status_history) = 1
           /\ cloned.status_history[1].from_status = None
           /\ cloned.status_history[1].to_status = DRAFT
           /\ cloned.status_history[1].change_reason = "Initial status"
           /\ cloned.selected_architect_id = None
           /\ cloned.completion_date = NoDate
           /\ cloned.cancellation_date = NoDate

(* A Completed opportunity with six history entries has been cloned *)
C27_Witness ==
    /\ result.op = "clone"
    /\ result.success
    /\ opportunity.status = COMPLETED
    /\ Len(opportunity.status_history) = 6
    /\ result.cloned_opportunity.skill_requirements = opportunity.skill_requirements

(* The aggregate is as its constructor leaves it *)
NewlyCreated(o) ==
    /\ o.status = DRAFT
    /\ Len(o.status_history) = 1
    /\ o.status_history[1].from_status = None
    /\ o.status_history[1].to_status = DRAFT

(* C28: every newly created aggregate, the one no command has run on yet  *)
(* and every clone as it is handed back, is in Draft and has exactly one   *)
(* history entry, from no status to Draft.                                 *)
C28_NewAggregateIsDraft ==
    /\ result = NoResult => NewlyCreated(opportunity)
    /\ (result.op = "clone" /\ result.success) =>
          NewlyCreated(result.cloned_opportunity)

(* A new aggregate has been created from a Cancelled opportunity *)
C28_Witness ==
    /\ result.op = "clone"
    /\ result.success
    /\ opportunity.status = CANCELLED
    /\ result.cloned_opportunity.title = "Copy"
    /\ result.cloned_opportunity.status_history[1].changed_by = "sm_001"

(* C29: a save by a caller that has not seen the version the repository   *)
(* holds is refused and leaves the stored opportunity as it is.            *)
C29_StaleWriteRejected ==
    [][(\E caller \in Callers :
           /\ repo_result' # repo_result \/ opportunities' # opportunities
           /\ repo_result'.op = "save"
           /\ repo_result'.caller = caller
           /\ loaded[caller] # opportunities.version) =>
          /\ ~repo_result'.success
          /\ opportunities' = opportunities]_vars

(* An opportunity as it is after create, a complete problem statement, a   *)
(* Must-Have skill requirement and a timeline, and nothing else            *)
ReadyAfterCreate(o) ==
    /\ o.status = DRAFT
    /\ Len(o.status_history) = 1
    /\ o.problem_statement # Nothing
    /\ is_complete(ValueOf(o.problem_statement))
    /\ \E i \in 1..Len(o.skill_requirements) :
          o.skill_requirements[i].importance = MUST_HAVE
    /\ o.timeline_specification # Nothing

(* The trail of an opportunity submitted right after its creation *)
DraftThenSubmitted(o) ==
    /\ o.status = SUBMITTED
    /\ Len(o.status_history) = 2
    /\ o.status_history[1].from_status = None
    /\ o.status_history[1].to_status = DRAFT
    /\ o.status_history[2].from_status = DRAFT
    /\ o.status_history[2].to_status = SUBMITTED

(* C30: after create, a complete problem statement, one Must-Have skill    *)
(* requirement and a timeline, submit by a named user succeeds, the status *)
(* is Submitted and the history is exactly Draft, then Submitted.          *)
C30_SubmitAfterSetup ==
    [][ReadyAfterCreate(opportunity) =>
          /\ validate_for_submission(opportunity) = <<>>
          /\ \A submitted_by \in Users :
                ~Blank(submitted_by) =>
                   LET r == change_status(opportunity, SUBMITTED, submitted_by,
                                          "Opportunity submitted for matching",
                                          "All required information provided", today)
                   IN  ~r.raised /\ DraftThenSubmitted(r.o)
          /\ (pc = "idle" /\ pc' = "idle" /\ result'.op = "submit") =>
                IF result'.success
                THEN /\ DraftThenSubmitted(opportunity')
                     /\ ~Blank(opportunity'.status_history[2].changed_by)
                ELSE opportunity' = opportunity]_vars

(* The opportunity has been submitted right after its setup *)
C30_Witness ==
    /\ result = Outcome("submit", TRUE)
    /\ DraftThenSubmitted(opportunity)
    /\ opportunity.status_history[2].changed_by = "sm_001"
    /\ opportunity.status_history[2].change_reason = "Opportunity submitted for matching"

(* C31: the status records read back are in the order they were appended, *)
(* also when records carry the same timestamp: the history read is the     *)
(* sequence appended, and the current record read is the last appended.    *)
C31_HistoryReadInInsertionOrder ==
    /\ get_status_history(svc_statuses) = svc_statuses
    /\ svc_statuses # <<>> =>
          get_current_status(svc_statuses) = Just(svc_statuses[Len(svc_statuses)])

(* C32: while matching is in progress, completing it with no matches      *)
(* (matches_found false or match_count 0) by a named user succeeds and     *)
(* takes the opportunity back to Submitted.                                *)
C32_NoMatchesReturnsToSubmitted ==
    opportunity.status = MATCHING_IN_PROGRESS =>
       \A completed_by \in Users, matches_found \in BOOLEAN, match_count \in {0, 1} :
          (~Blank(completed_by) /\ (~matches_found \/ match_count = 0)) =>
             LET r == complete_matching_process(opportunity, matches_found,
                                                completed_by, match_count, today)
             IN  ~r.raised /\ r.o.status = SUBMITTED

(* C33: cancelling an opportunity that is already Cancelled is rejected,   *)
(* appends no status record and leaves the cancellation instant, the       *)
(* reason and the reactivation deadline as they were.                      *)
C33_CancelOfCancelledRejected ==
    [][(/\ svc.exists
        /\ svc.status = CANCELLED
        /\ today' = today
        /\ svc_result'.op = "cancel") =>
          /\ ~svc_result'.success
          /\ svc_statuses' = svc_statuses
          /\ svc'.cancelled_at = svc.cancelled_at
          /\ svc'.cancellation_reason = svc.cancellation_reason
          /\ svc'.reactivation_deadline = svc.reactivation_deadline]_vars

(* C34: the status history is a chain: the first entry has no from_status, *)
(* every later entry has one, and it is the to_status of the entry just    *)
(* before it.                                                              *)
C34_HistoryIsChain ==
    /\ Len(history) >= 1
    /\ history[1].from_status = None
    /\ \A i \in 2..Len(history) :
          /\ history[i].from_status # None
          /\ history[i].from_status = history[i - 1].to_status

(* A history that went through a cancellation and a reactivation and then *)
(* on to Matching in Progress                                              *)
C34_Witness ==
    /\ Len(history) >= 5
    /\ opportunity.status = MATCHING_IN_PROGRESS
    /\ \E i \in 2..Len(history) : history[i].from_status = CANCELLED

(* C35: the cancellation instant and the cancellation reason are set       *)
(* exactly while the status is Cancelled.                                  *)
C35_CancellationFieldsFollowStatus ==
    svc.exists =>
       /\ svc.cancelled_at # NoDate <=> svc.status = CANCELLED
       /\ svc.cancellation_reason # None <=> svc.status = CANCELLED

(* C36: while the status is Draft, Submitted, Matching in Progress or      *)
(* Matches Found, no architect is selected.                                *)
C36_NoArchitectBeforeSelection ==
    opportunity.status \in {DRAFT, SUBMITTED, MATCHING_IN_PROGRESS, MATCHES_FOUND} =>
       opportunity.selected_architect_id = None

(* C37: a modification command with several parts is all-or-nothing: when *)
(* a basic-information update or a skills update returns failure, the      *)
(* fields and the skill list are as they were before the call.             *)
C37_MultiPartAllOrNothing ==
    [][(/\ pc = "idle"
        /\ pc' = "idle"
        /\ result'.op \in {"update_basic_information", "update_skill_requirements"}
        /\ ~result'.success) =>
          /\ opportunity'.title = opportunity.title
          /\ opportunity'.description = opportunity.description
          /\ opportunity'.annual_recurring_revenue = opportunity.annual_recurring_revenue
          /\ opportunity'.priority = opportunity.priority
          /\ opportunity'.skill_requirements = opportunity.skill_requirements]_vars

(* The callers that give their name *)
NamedUsers == {user \in Users : ~Blank(user)}

(* The status commands: whenever the check of the validation service       *)
(* returns no error, the operation of the aggregate does not raise.        *)
StatusChecksAgree ==
    /\ validate_for_submission(opportunity) = <<>> =>
          \A submitted_by \in NamedUsers :
             ~change_status(opportunity, SUBMITTED, submitted_by,
                            "Opportunity submitted for matching",
                            "All required information provided", today).raised
    /\ \A reason \in Reasons :
          validate_cancellation(opportunity, reason) = <<>> =>
             \A cancelled_by \in NamedUsers :
                ~cancel_opportunity(opportunity, cancelled_by, reason, None, today).raised
    /\ validate_reactivation(opportunity, today) = <<>> =>
          \A reactivated_by \in NamedUsers :
             ~reactivate_opportunity(opportunity, reactivated_by, None, today).raised
    /\ \A architect_id \in ArchitectIds :
          validate_architect_selection(opportunity, architect_id) = <<>> =>
             \A selected_by \in NamedUsers :
                ~select_architect(opportunity, architect_id, selected_by, today).raised
    /\ validate_completion(opportunity) = <<>> =>
          \A completed_by \in NamedUsers, completion_notes \in Notes :
             ~complete_opportunity(opportunity, completed_by, completion_notes,
                                   today).raised

(* The modification of the basic information, likewise *)
ModificationChecksAgree ==
    \A modification_data \in ModificationData :
       validate_for_modification(opportunity, modification_data) = <<>> =>
          ~UpdateFields(opportunity, modification_data).raised

(* C38: for submit, cancel, reactivate, select architect, complete and the *)
(* modification of the basic information, the check of the validation      *)
(* service and the guard of the aggregate agree: with no error from the     *)
(* check, the operation called by a named user does not raise.              *)
C38_CheckAndGuardAgree ==
    pc = "idle" => (StatusChecksAgree /\ ModificationChecksAgree)

(* The name modifiable_fields gives to a key of modification_data *)
ListedAs(key) == IF key = "annual_recurring_revenue" THEN "arr" ELSE key

(* A request that names one field of the basic information, with a value   *)
(* that is valid for it                                                    *)
SingleField(key) ==
    CASE key = "title" -> [NoModification EXCEPT !.title = Just("New")]
      [] key = "description" -> [NoModification EXCEPT !.description = Just("D")]
      [] key = "annual_recurring_revenue" ->
            [NoModification EXCEPT !.annual_recurring_revenue = Just(10)]
      [] key = "priority" -> [NoModification EXCEPT !.priority = Just("high")]

(* C39: in every status, a field of the basic information is in the        *)
(* modifiable_fields of get_modification_permissions exactly when a        *)
(* modification of that field is accepted.                                 *)
C39_WhitelistMatchesAccepted ==
    pc = "idle" =>
       \A i \in 1..Len(ModificationKeys) :
          LET key == ModificationKeys[i]
          IN  ListedAs(key) \in get_modification_permissions(opportunity)
                 <=> update_basic_information(opportunity,
                                              SingleField(key)).result.success

(* The to_status of the entries from position i on *)
RECURSIVE TargetsFrom(_, _)
TargetsFrom(h, i) ==
    IF i > Len(h) THEN <<>> ELSE <<h[i].to_status>> \o TargetsFrom(h, i + 1)

(* The five commands in turn on the opportunity o, each through the check  *)
(* its handler makes: accepted at every step, and the statuses in order    *)
RunsToCompletion(o, user, architect_id) ==
    LET submitted == change_status(o, SUBMITTED, user,
                                   "Opportunity submitted for matching",
                                   "All required information provided", today)
        matching == change_status(submitted.o, MATCHING_IN_PROGRESS, user,
                                  "Matching process initiated",
                                  "Searching for suitable Solution Architects", today)
        found == complete_matching_process(matching.o, TRUE, user, 1, today)
        selected == select_architect(found.o, architect_id, user, today)
        completed == complete_opportunity(selected.o, user, None, today)
    IN  /\ ~submitted.raised
        /\ submitted.o.status = SUBMITTED
        /\ ~matching.raised
        /\ matching.o.status = MATCHING_IN_PROGRESS
        /\ ~found.raised
        /\ validate_architect_selection(found.o, architect_id) = <<>>
        /\ ~selected.raised
        /\ validate_completion(selected.o) = <<>>
        /\ ~completed.raised
        /\ completed.o.status = COMPLETED
        /\ TargetsFrom(completed.o.status_history, Len(o.status_history))
             = <<DRAFT, SUBMITTED, MATCHING_IN_PROGRESS, MATCHES_FOUND,
                 ARCHITECT_SELECTED, COMPLETED>>

(* C40: from a Draft opportunity that satisfies the preconditions of the   *)
(* submission, submit, start matching, complete matching with a match,     *)
(* select architect and complete are each accepted, and the status goes    *)
(* through Draft, Submitted, Matching in Progress, Matches Found,          *)
(* Architect Selected, Completed in that order.                            *)
C40_LifecycleRunsInOrder ==
    (/\ pc = "idle"
     /\ opportunity.status = DRAFT
     /\ validate_for_submission(opportunity) = <<>>) =>
       \A user \in NamedUsers, architect_id \in ArchitectIds :
          ~Blank(architect_id) => RunsToCompletion(opportunity, user, architect_id)

(* The five commands have taken a new opportunity to Completed *)
C40_Witness ==
    /\ opportunity.status = COMPLETED
    /\ result = Outcome("complete", TRUE)
    /\ opportunity.selected_architect_id = "arch_1"
    /\ TargetsFrom(history, 1)
         = <<DRAFT, SUBMITTED, MATCHING_IN_PROGRESS, MATCHES_FOUND,
             ARCHITECT_SELECTED, COMPLETED>>

====
